---- MODULE Spec2Model ----
(***************************************************************************)
(* Model of the dsa_abc crate: the raw-pointer binary search tree of       *)
(* src/src/binary_search_tree.rs and the raw-pointer singly linked list of *)
(* src/src/singly_linked_list.rs.                                          *)
(*                                                                         *)
(* Memory is modelled explicitly.  A node is an address; a heap maps the   *)
(* addresses to the fields of the node; Box::into_raw(Box::new(..))        *)
(* allocates an address and drop(Box::from_raw(p)) releases it.  Neither   *)
(* node type implements Drop and the links are raw pointers, so releasing  *)
(* a node releases that node alone, never what its links point to.         *)
(***************************************************************************)
EXTENDS Integers, Sequences, FiniteSets

\* ------------------------------------------------------------------ bounds
\* The element values the operations are called with: the first NumVals
\* values of ValPool (the values the repository's tests use).
ValPool == <<1, 5, 7, 9, 10, 11, 15, 30>>
NumVals == 5
Values == {ValPool[i] : i \in 1..NumVals}
\* The values the list operations are called with.
NumListVals == 2
ListValues == {ValPool[i] : i \in 1..NumListVals}
\* Number of tree nodes ever allocated in one run.
MaxAlloc == 5
\* Number of delete calls on the tree in one run.
MaxDeletes == 2
\* The adds of the traversal tests, after new(10), and the number of tree
\* nodes allocated in a run of add calls alone.
SampleAdds == <<5, 1, 9, 15, 30, 11>>
AllValues == {ValPool[i] : i \in DOMAIN ValPool}
MaxAddAlloc == 7

\* Number of addresses the list's allocator can hand out.
MaxAddr == 4
LAddr == 1..MaxAddr
\* Number of operations on the list in one run.
MaxListOps == 6

NULL == 0
\* Option<&T>: None is the empty sequence, Some(v) the sequence <<v>>.
None == <<>>
Some(v) == <<v>>

VARIABLES
    \* ---- BinarySearchTree
    root,       \* BinarySearchTree.root: an address or NULL
    heap,       \* the allocated tree nodes: address -> [data, left, right]
    freed,      \* the addresses released so far
    nxt,        \* the next address the allocator hands out
    log,        \* the memory events of the last operation, in program order
    fault,      \* "none", or the fault the last operation ended in
    tub,        \* the last operation read released memory that was overwritten
    tpre,       \* root and heap before the last operation
    tlast,      \* the last operation and its argument
    dels,       \* number of delete calls so far
    tins,       \* the values new and add were called with so far
    \* ---- SinglyLinkedList
    lroot,      \* SinglyLinkedList.root: an address or NULL
    lleaf,      \* SinglyLinkedList.leaf: an address or NULL
    size,       \* SinglyLinkedList.size
    lheap,      \* memory of the list nodes: address -> [data, next]
    lalloc,     \* the addresses allocated now
    lused,      \* the addresses allocated at some time
    llog,       \* the memory events of the last operation, in program order
    lfault,     \* "none", or the fault the last operation ended in
    lub,        \* the last operation read released memory that was overwritten
    lpre,       \* nodes, values, allocation, size, head and tail before the
                \* last operation
    llast,      \* the last operation and its argument
    aseq,       \* the abstract sequence the operations so far describe
    rems,       \* number of removing calls (pop, remove_*) so far
    lops,       \* number of operations so far
    lib         \* the tree of the crate root (lib.rs) under the same calls as
                \* the tree above: its machine state [root, heap, freed, nxt,
                \* log, fault, ub]

treeVars == <<root, heap, freed, nxt, log, fault, tub, tpre, tlast, dels, tins>>
listVars == <<lroot, lleaf, size, lheap, lalloc, lused, llog, lfault, lub, lpre,
              llast, aseq, rems, lops>>
vars == <<treeVars, listVars, lib>>

\* ------------------------------------------------------ tree: machine state
\* The operations below are functions of a machine state
\*   m = [root, heap, freed, nxt, log, fault, ub].
Machine == [root |-> root, heap |-> heap, freed |-> freed, nxt |-> nxt,
            log |-> <<>>, fault |-> fault, ub |-> FALSE]

\* What a read of the data of a released node may find: the allocator may
\* have left the old value (kept) or anything else.
Stale == [kept : {TRUE}, data : {ValPool[1]}] \cup [kept : {FALSE}, data : Values]

Rd(m, n) == [m EXCEPT !.log = Append(@, <<"read", n>>)]
Wr(m, n) == [m EXCEPT !.log = Append(@, <<"write", n>>)]

Restrict(f, S) == [x \in S |-> f[x]]

\* Node::new + Node::new_mut: a fresh node with both links null.
new_mut(m, data) ==
    [m EXCEPT !.heap = [x \in DOMAIN m.heap \cup {m.nxt} |->
                           IF x = m.nxt
                           THEN [data |-> data, left |-> NULL, right |-> NULL]
                           ELSE m.heap[x]],
              !.nxt = m.nxt + 1]

\* drop(Box::from_raw(p)): releases the node p alone.  Releasing a null or an
\* already released pointer is a fault.
release(m, p) ==
    IF p \notin DOMAIN m.heap
    THEN [m EXCEPT !.fault = IF p = NULL THEN "free_null" ELSE "double_free",
                   !.log = Append(@, <<"free", p>>)]
    ELSE [m EXCEPT !.heap = Restrict(m.heap, DOMAIN m.heap \ {p}),
                   !.freed = @ \cup {p},
                   !.log = Append(@, <<"free", p>>)]

\* Node::add_left / Node::add_right
add_left(m, n, data) ==
    IF m.heap[n].left # NULL THEN m
    ELSE LET m1 == new_mut(m, data)
         IN  Wr([m1 EXCEPT !.heap[n].left = m.nxt], n)

add_right(m, n, data) ==
    IF m.heap[n].right # NULL THEN m
    ELSE LET m1 == new_mut(m, data)
         IN  Wr([m1 EXCEPT !.heap[n].right = m.nxt], n)

\* Node::delete_left / Node::delete_right: release the node in the slot, then
\* null the slot.
delete_left(m, n) ==
    LET m1 == release(Rd(m, n), m.heap[n].left)
    IN  IF m1.fault # "none" THEN m1
        ELSE Wr([m1 EXCEPT !.heap[n].left = NULL], n)

delete_right(m, n) ==
    LET m1 == release(Rd(m, n), m.heap[n].right)
    IN  IF m1.fault # "none" THEN m1
        ELSE Wr([m1 EXCEPT !.heap[n].right = NULL], n)

\* add_node with the two comparisons exchanged.
RECURSIVE add_node_swapped(_, _, _)
add_node_swapped(m, data, node) ==
    IF data < m.heap[node].data
    THEN IF m.heap[node].right = NULL
         THEN add_right(m, node, data)
         ELSE add_node_swapped(m, data, m.heap[node].right)
    ELSE IF data > m.heap[node].data
    THEN IF m.heap[node].left = NULL
         THEN add_left(m, node, data)
         ELSE add_node_swapped(m, data, m.heap[node].left)
    ELSE m

\* BinarySearchTree::add_node
RECURSIVE add_node(_, _, _)
add_node(m, data, node) ==
    IF data > m.heap[node].data
    THEN IF m.heap[node].right = NULL
         THEN add_right(m, node, data)
         ELSE add_node(m, data, m.heap[node].right)
    ELSE IF data < m.heap[node].data
    THEN IF m.heap[node].left = NULL
         THEN add_left(m, node, data)
         ELSE add_node(m, data, m.heap[node].left)
    ELSE m

\* add that sends an equal value to the right instead of ignoring it.
RECURSIVE add_node_dup(_, _, _)
add_node_dup(m, data, node) ==
    IF data >= m.heap[node].data
    THEN IF m.heap[node].right = NULL
         THEN add_right(m, node, data)
         ELSE add_node_dup(m, data, m.heap[node].right)
    ELSE IF m.heap[node].left = NULL
         THEN add_left(m, node, data)
         ELSE add_node_dup(m, data, m.heap[node].left)

add_dup(m, data) ==
    IF m.root = NULL
    THEN [new_mut(m, data) EXCEPT !.root = m.nxt]
    ELSE add_node_dup(m, data, m.root)

\* BinarySearchTree::add
add(m, data) ==
    IF m.root = NULL
    THEN [new_mut(m, data) EXCEPT !.root = m.nxt]
    ELSE add_node(m, data, m.root)

\* get_node that stops at the children of the node it starts from.
get_node_shallow(h, data, node) ==
    IF node = NULL THEN None
    ELSE IF h[node].data = data THEN Some(data)
    ELSE LET kid == IF data > h[node].data THEN h[node].right ELSE h[node].left
         IN  IF kid # NULL /\ h[kid].data = data THEN Some(data) ELSE None

\* BinarySearchTree::get_node
RECURSIVE get_node(_, _, _)
get_node(h, data, node) ==
    IF node = NULL THEN None
    ELSE IF data > h[node].data THEN get_node(h, data, h[node].right)
    ELSE IF data < h[node].data THEN get_node(h, data, h[node].left)
    ELSE Some(h[node].data)

\* BinarySearchTree::get, on a tree given by its root and heap
get_in(r, h, data) == get_node(h, data, r)
get(data) == get_in(root, heap, data)

\* The loop of find_successor_and_delete: walk left from current.
RECURSIVE successor_walk(_, _, _)
successor_walk(m, past, current) ==
    IF m.heap[current].left # NULL
    THEN successor_walk(Rd(m, current), current, m.heap[current].left)
    ELSE [m |-> Rd(m, current), past |-> past, current |-> current]

\* BinarySearchTree::find_successor_and_delete: returns the machine state and
\* the reference it hands back (the address whose data the caller reads).
find_successor_and_delete(m, node) ==
    IF m.heap[node].right = NULL
    THEN [m |-> Rd(m, node), ref |-> NULL]
    ELSE LET w  == successor_walk(Rd(m, node), node, m.heap[node].right)
             m1 == Rd(w.m, w.past)
             m2 == IF w.current = m.heap[w.past].right
                   THEN delete_right(m1, w.past)
                   ELSE delete_left(m1, w.past)
         IN  [m |-> m2, ref |-> w.current]

\* delete_node_helper that takes every leaf for the right child of its parent.
delete_node_helper_right(m, parent, node, right, stale) ==
    LET n  == m.heap[node]
        m1 == Rd(m, node)
    IN  IF n.left # NULL /\ n.right # NULL
        THEN LET s   == find_successor_and_delete(m1, node)
                 val == IF s.ref \in DOMAIN s.m.heap
                        THEN s.m.heap[s.ref].data
                        ELSE IF stale.kept THEN m.heap[s.ref].data
                        ELSE stale.data
             IN  Wr([Rd(s.m, s.ref) EXCEPT
                        !.heap[node].data = val,
                        !.ub = @ \/ (s.ref \notin DOMAIN s.m.heap /\ ~stale.kept)],
                    node)
        ELSE IF n.left = NULL /\ n.right = NULL
        THEN delete_right(m1, parent)
        ELSE IF n.left = NULL
             THEN delete_right(m1, node)
             ELSE delete_left(m1, node)

\* BinarySearchTree::delete_node_helper.  The successor's data is read
\* through the reference find_successor_and_delete returns, after the
\* successor was released: stale is what that read finds.
delete_node_helper(m, parent, node, right, stale) ==
    LET n  == m.heap[node]
        m1 == Rd(m, node)
    IN  IF n.left # NULL /\ n.right # NULL
        THEN LET s   == find_successor_and_delete(m1, node)
                 val == IF s.ref \in DOMAIN s.m.heap
                        THEN s.m.heap[s.ref].data
                        ELSE IF stale.kept THEN m.heap[s.ref].data
                        ELSE stale.data
             IN  Wr([Rd(s.m, s.ref) EXCEPT
                        !.heap[node].data = val,
                        !.ub = @ \/ (s.ref \notin DOMAIN s.m.heap /\ ~stale.kept)],
                    node)
        ELSE IF n.left = NULL /\ n.right = NULL
        THEN IF right THEN delete_right(m1, parent)
                      ELSE delete_left(m1, parent)
        ELSE IF n.left = NULL
             THEN delete_right(m1, node)
             ELSE delete_left(m1, node)

\* BinarySearchTree::delete_node
RECURSIVE delete_node(_, _, _, _)
delete_node(m, data, node, stale) ==
    IF node = NULL THEN m
    ELSE LET m1 == Rd(m, node)
         IN  IF data > m.heap[node].data
             THEN LET right == m.heap[node].right
                  IN  IF right = NULL THEN m1
                      ELSE IF data = m.heap[right].data
                      THEN delete_node_helper(Rd(m1, right), node, right, TRUE, stale)
                      ELSE delete_node(Rd(m1, right), data, right, stale)
             ELSE IF data < m.heap[node].data
             THEN LET left == m.heap[node].left
                  IN  IF left = NULL THEN m1
                      ELSE IF data = m.heap[left].data
                      THEN delete_node_helper(Rd(m1, left), node, left, FALSE, stale)
                      ELSE delete_node(Rd(m1, left), data, left, stale)
             ELSE m1

\* BinarySearchTree::delete.  (*self.root).data is read without a null check.
delete(m, data, stale) ==
    IF m.root = NULL
    THEN [m EXCEPT !.fault = "null_deref", !.log = Append(@, <<"read", NULL>>)]
    ELSE IF m.heap[m.root].data = data
    THEN [release(Rd(m, m.root), m.root) EXCEPT !.root = NULL]
    ELSE delete_node(m, data, m.root, stale)

\* The tree goes out of scope.  BinarySearchTree has no Drop impl and its only
\* field is a raw pointer: nothing is released.
teardown(m) == m

\* in_order_node / pre_order_node / post_order_node: the sequence of values
\* the callback is invoked with.
RECURSIVE in_order_node(_, _)
in_order_node(h, node) ==
    IF node = NULL THEN <<>>
    ELSE in_order_node(h, h[node].left) \o <<h[node].data>>
             \o in_order_node(h, h[node].right)

RECURSIVE pre_order_node(_, _)
pre_order_node(h, node) ==
    IF node = NULL THEN <<>>
    ELSE <<h[node].data>> \o pre_order_node(h, h[node].left)
             \o pre_order_node(h, h[node].right)

\* post_order_node visiting the right subtree first.
RECURSIVE post_order_node_rl(_, _)
post_order_node_rl(h, node) ==
    IF node = NULL THEN <<>>
    ELSE post_order_node_rl(h, h[node].right) \o post_order_node_rl(h, h[node].left)
             \o <<h[node].data>>

RECURSIVE post_order_node(_, _)
post_order_node(h, node) ==
    IF node = NULL THEN <<>>
    ELSE post_order_node(h, h[node].left) \o post_order_node(h, h[node].right)
             \o <<h[node].data>>

in_order == in_order_node(heap, root)
pre_order == pre_order_node(heap, root)
post_order == post_order_node(heap, root)

\* ------------------------------------------------------------ tree: actions
Install(m, op, arg) ==
    /\ root' = m.root
    /\ heap' = m.heap
    /\ freed' = m.freed
    /\ nxt' = m.nxt
    /\ log' = m.log
    /\ fault' = m.fault
    /\ tub' = m.ub
    /\ tpre' = [root |-> root, heap |-> heap]
    /\ tlast' = [op |-> op, arg |-> arg]

\* BinarySearchTree::new(data)
TreeRest ==
    /\ freed = {}
    /\ nxt = 2
    /\ log = <<>>
    /\ fault = "none"
    /\ tub = FALSE
    /\ tpre = [root |-> NULL, heap |-> <<>>]
    /\ dels = 0

TreeNew(v) ==
    /\ root = 1
    /\ heap = [x \in {1} |-> [data |-> v, left |-> NULL, right |-> NULL]]
    /\ tlast = [op |-> "new", arg |-> v]
    /\ tins = {v}
    /\ TreeRest

TreeInit == \E v \in Values : TreeNew(v)

\* An execution is followed until it faults or reads released memory that
\* the allocator has overwritten: from there on nothing is defined.
TreeReady == fault = "none" /\ ~tub /\ tlast.op # "drop"

AddWithin(v, cap) ==
    /\ TreeReady
    /\ nxt <= cap
    /\ Install(add(Machine, v), "add", v)
    /\ tins' = tins \cup {v}
    /\ UNCHANGED <<dels, listVars, lib>>

Add(v) == AddWithin(v, MaxAlloc)
\* add in a run of add calls alone
AddOnly(v) == AddWithin(v, MaxAddAlloc)

Delete(v) ==
    /\ TreeReady
    /\ dels < MaxDeletes
    /\ \E stale \in Stale : Install(delete(Machine, v, stale), "delete", v)
    /\ dels' = dels + 1
    /\ UNCHANGED <<tins, listVars, lib>>

Drop ==
    /\ TreeReady
    /\ Install(teardown(Machine), "drop", NULL)
    /\ UNCHANGED <<dels, tins, listVars, lib>>

TreeNext ==
    \/ \E v \in Values : Add(v)
    \/ \E v \in Values : Delete(v)
    \/ Drop

TreeAddNext == \E v \in AllValues : AddOnly(v)

\* ------------------------------------------------------------- tree: claims
\* The address of the node an ordering walk from r reaches for v, or NULL.
RECURSIVE node_of(_, _, _)
node_of(h, r, v) ==
    IF r = NULL THEN NULL
    ELSE IF v > h[r].data THEN node_of(h, h[r].right, v)
    ELSE IF v < h[r].data THEN node_of(h, h[r].left, v)
    ELSE r

Range(s) == {s[i] : i \in DOMAIN s}
\* The values held by the tree before the last operation.
PreVals == Range(in_order_node(tpre.heap, tpre.root))
\* The node that held the argument of the last operation, before it.
PreTarget == node_of(tpre.heap, tpre.root, tlast.arg)
PreKids == {tpre.heap[PreTarget].left, tpre.heap[PreTarget].right} \ {NULL}
\* The last operation was the first delete of the run (the tree was built by
\* new and add alone), its argument was in the tree, and it ran to its end
\* with every read of released memory, if any, finding the old contents.
FirstDeleteOfPresent ==
    /\ fault = "none" /\ ~tub
    /\ tlast.op = "delete"
    /\ dels = 1
    /\ PreTarget # NULL

\* C1: after delete(v) of a value v in a tree built by new/add, get(v) returns
\* nothing and get(w) returns w for every other value w the tree held.
C1_DeleteThenGet ==
    FirstDeleteOfPresent =>
        /\ get(tlast.arg) = None
        /\ \A w \in PreVals \ {tlast.arg} : get(w) = Some(w)

\* C3: during a delete on the tree no node is read or written after it has
\* been released: no event of the operation touches an address that an
\* earlier event of the same operation released.
C3_NoUseAfterRelease ==
    tlast.op = "delete" =>
        \A i, j \in DOMAIN log :
            (i < j /\ log[i][1] = "free") => log[j][2] # log[i][2]

\* C5: delete(v) of a non-root node with two children leaves exactly the
\* previous values minus v in the tree (also when the successor has a right
\* subtree), and get(v) returns nothing.
C5_TwoChildDelete ==
    (FirstDeleteOfPresent /\ PreTarget # tpre.root /\ Cardinality(PreKids) = 2) =>
        /\ Range(in_order) = PreVals \ {tlast.arg}
        /\ get(tlast.arg) = None

\* C6: delete(v) of a non-root node with exactly one child splices the child
\* up: get(v) returns nothing and every value of the child's subtree is still
\* retrievable.
C6_OneChildDelete ==
    (FirstDeleteOfPresent /\ PreTarget # tpre.root /\ Cardinality(PreKids) = 1) =>
        /\ get(tlast.arg) = None
        /\ \A k \in PreKids :
              \A w \in Range(in_order_node(tpre.heap, k)) : get(w) = Some(w)

\* C7: delete(v) of the root's value: a root with a child leaves the tree
\* non-empty, get(v) returns nothing and every other value stays retrievable;
\* only a sole root leaves the tree empty.
C7_RootDelete ==
    (FirstDeleteOfPresent /\ PreTarget = tpre.root) =>
        /\ get(tlast.arg) = None
        /\ \A w \in PreVals \ {tlast.arg} : get(w) = Some(w)
        /\ (root = NULL) <=> (PreKids = {})


\* C11: after new(v) and any sequence of add calls, in_order yields a
\* non-decreasing sequence of values.
C11_InOrderSorted ==
    \A i \in 1..(Len(in_order) - 1) : in_order[i] <= in_order[i + 1]

\* A tree of MaxAddAlloc nodes whose root has two children.
C11_Witness ==
    /\ Len(in_order) = MaxAddAlloc
    /\ heap[root].left # NULL /\ heap[root].right # NULL

\* C12: after new(v) and any sequence of add calls, get(x) returns x for
\* every value x inserted and nothing for every value never inserted.
C12_Lookup ==
    \A x \in AllValues : get(x) = IF x \in tins THEN Some(x) ELSE None

\* At least four values were inserted, one of them below a child of the
\* root, and some value was not.
C12_Witness ==
    /\ Cardinality(tins) >= 4 /\ tins # AllValues
    /\ \E n \in DOMAIN heap : n # root /\ n # heap[root].left /\ n # heap[root].right

\* C13: add(v) of a value the tree holds allocates no node, changes no slot
\* and leaves in_order as it was.
C13_AddPresent ==
    (tlast.op = "add" /\ tlast.arg \in PreVals) =>
        /\ fault = "none"
        /\ nxt = Cardinality(DOMAIN tpre.heap) + 1
        /\ heap = tpre.heap /\ root = tpre.root
        /\ \A i \in DOMAIN log : log[i][1] # "write"
        /\ in_order = in_order_node(tpre.heap, tpre.root)

\* add of a value held by a node that is not the root, in a tree of at least
\* three nodes.
C13_Witness ==
    /\ tlast.op = "add" /\ tlast.arg \in PreVals
    /\ tlast.arg # tpre.heap[tpre.root].data
    /\ Cardinality(DOMAIN tpre.heap) >= 3

\* The places of the nodes of the tree under node: the path of left and right
\* links from node to each, with the value it holds.
RECURSIVE Places(_, _, _)
Places(h, node, path) ==
    IF node = NULL THEN {}
    ELSE {[at |-> path, data |-> h[node].data]}
            \cup Places(h, h[node].left, Append(path, "L"))
            \cup Places(h, h[node].right, Append(path, "R"))

\* p is a place strictly above q.
Above(p, q) == Len(p) < Len(q) /\ SubSeq(q, 1, Len(p)) = p
\* p and q part at a node, p into its left subtree and q into its right one.
LeftOf(p, q) ==
    \E i \in 1..Len(p) :
        /\ i <= Len(q)
        /\ SubSeq(p, 1, i - 1) = SubSeq(q, 1, i - 1)
        /\ p[i] = "L" /\ q[i] = "R"
\* left-node-right, node-left-right and left-right-node
InBefore(p, q) ==
    \/ LeftOf(p, q)
    \/ Above(p, q) /\ q[Len(p) + 1] = "R"
    \/ Above(q, p) /\ p[Len(q) + 1] = "L"
PreBefore(p, q) == LeftOf(p, q) \/ Above(p, q)
PostBefore(p, q) == LeftOf(p, q) \/ Above(q, p)

Pos(s, v) == CHOOSE i \in DOMAIN s : s[i] = v

\* new(v)
NewTree(v) ==
    [root |-> 1, heap |-> [x \in {1} |-> [data |-> v, left |-> NULL, right |-> NULL]],
     freed |-> {}, nxt |-> 2, log |-> <<>>, fault |-> "none", ub |-> FALSE]

RECURSIVE add_all(_, _)
add_all(m, s) == IF s = <<>> THEN m ELSE add_all(add(m, Head(s)), Tail(s))

\* The tree of the traversal tests: new(10), then add 5, 1, 9, 15, 30, 11.
SampleTree == add_all(NewTree(10), SampleAdds)

\* C14: in_order, pre_order and post_order yield the value of every node
\* exactly once, in left-node-right, node-left-right and left-right-node
\* order; on the tree built by new(10) and add 5, 1, 9, 15, 30, 11 they yield
\* 1 5 9 10 11 15 30, 10 5 1 9 15 11 30 and 1 9 5 11 30 15 10.
C14_Traversals ==
    LET places == Places(heap, root, <<>>)
        Visits(s, Before(_, _)) ==
            /\ Len(s) = Cardinality(DOMAIN heap)
            /\ Len(s) = Cardinality(places)
            /\ Range(s) = {pl.data : pl \in places}
            /\ \A a, b \in places :
                  Before(a.at, b.at) => Pos(s, a.data) < Pos(s, b.data)
    IN  /\ Visits(in_order, InBefore)
        /\ Visits(pre_order, PreBefore)
        /\ Visits(post_order, PostBefore)
        /\ (root = SampleTree.root /\ heap = SampleTree.heap) =>
              /\ in_order = <<1, 5, 9, 10, 11, 15, 30>>
              /\ pre_order = <<10, 5, 1, 9, 15, 11, 30>>
              /\ post_order = <<1, 9, 5, 11, 30, 15, 10>>

\* The tree of the traversal tests.
C14_Witness == root = SampleTree.root /\ heap = SampleTree.heap /\ Len(pre_order) = 7

\* C15: delete(v) of a value the tree does not hold, the empty tree included,
\* ends without a fault and leaves the tree as it was.
C15_DeleteAbsent ==
    (/\ tlast.op = "delete"
     /\ \/ tpre.root = NULL
        \/ dels = 1 /\ PreTarget = NULL)
    => /\ fault = "none"
       /\ heap = tpre.heap /\ root = tpre.root

\* The nodes reachable from node through left and right links.
RECURSIVE Reachable(_, _)
Reachable(h, node) ==
    IF node = NULL THEN {}
    ELSE {node} \cup Reachable(h, h[node].left) \cup Reachable(h, h[node].right)

\* C21: after any sequence of add and delete calls every node ever allocated
\* is reachable from the root or was released exactly once: no node is
\* allocated and unreachable, none is released twice and no null slot is
\* released.
C21_NoLeakNoDoubleFree ==
    /\ DOMAIN heap = Reachable(heap, root)
    /\ freed \cap DOMAIN heap = {}
    /\ freed \cup DOMAIN heap = 1..(nxt - 1)
    /\ fault \notin {"double_free", "free_null"}

SubVals(h, node) == Range(in_order_node(h, node))

\* C23: after any sequence of add and delete calls, at every node reachable
\* from the root every value of the left subtree is smaller and every value
\* of the right subtree larger than the value of the node, and in_order is
\* strictly increasing.
C23_Ordering ==
    /\ \A n \in Reachable(heap, root) :
          /\ \A x \in SubVals(heap, heap[n].left) : x < heap[n].data
          /\ \A x \in SubVals(heap, heap[n].right) : x > heap[n].data
    /\ \A i \in 1..(Len(in_order) - 1) : in_order[i] < in_order[i + 1]

\* The last operation was a delete of the value of a leaf that is not the
\* root.
LeafDelete ==
    /\ tlast.op = "delete"
    /\ PreTarget # NULL /\ PreTarget # tpre.root
    /\ tpre.heap[PreTarget].left = NULL /\ tpre.heap[PreTarget].right = NULL
PreParent ==
    CHOOSE p \in DOMAIN tpre.heap :
        PreTarget \in {tpre.heap[p].left, tpre.heap[p].right}

\* C24: delete(v) of the value of a leaf that is not the root detaches that
\* leaf from the slot of its parent it was in and releases it, and nothing
\* else: the other slot of the parent and every other node are as before.
C24_LeafDelete ==
    LeafDelete =>
        /\ fault = "none" /\ ~tub
        /\ root = tpre.root
        /\ DOMAIN heap = DOMAIN tpre.heap \ {PreTarget}
        /\ \A n \in DOMAIN heap :
              heap[n] = IF n # PreParent THEN tpre.heap[n]
                        ELSE IF tpre.heap[n].left = PreTarget
                        THEN [tpre.heap[n] EXCEPT !.left = NULL]
                        ELSE [tpre.heap[n] EXCEPT !.right = NULL]
        /\ \A j \in DOMAIN log : log[j][1] = "free" => log[j] = <<"free", PreTarget>>
        /\ Cardinality({j \in DOMAIN log : log[j][1] = "free"}) = 1

\* The leaf was the left child of a parent that has a right child too.
C24_Witness ==
    /\ LeafDelete /\ fault = "none"
    /\ tpre.heap[PreParent].left = PreTarget
    /\ tpre.heap[PreParent].right # NULL

\* ------------------------------------------------- the tree of the crate root
\* lib.rs holds a second BinarySearchTree.  Its add_node, get_node,
\* find_successor_and_delete, traversals and Node are the same text as in
\* binary_search_tree.rs; add, delete_node_helper and delete_node differ.

\* drop(Box::from_raw(p)) in Node::delete_right of lib.rs, which is reached
\* with a null slot: releasing null is undefined, it does nothing or faults.
lib_release(m, p, stale) ==
    IF p = NULL /\ stale.kept
    THEN [m EXCEPT !.log = Append(@, <<"free", NULL>>)]
    ELSE release(m, p)

lib_delete_right(m, n, stale) ==
    LET m1 == lib_release(Rd(m, n), m.heap[n].right, stale)
    IN  IF m1.fault # "none" THEN m1
        ELSE Wr([m1 EXCEPT !.heap[n].right = NULL], n)

\* lib.rs BinarySearchTree::add: add_node is called on the root without a
\* null check, and add_node reads (*node).data first.
lib_add(m, data) ==
    IF m.root = NULL
    THEN [m EXCEPT !.fault = "null_deref", !.log = Append(@, <<"read", NULL>>)]
    ELSE add_node(m, data, m.root)

\* lib.rs BinarySearchTree::delete_node_helper(parent, node): a leaf is
\* always removed through the right slot of its parent.
lib_delete_node_helper(m, parent, node, stale) ==
    LET n  == m.heap[node]
        m1 == Rd(m, node)
    IN  IF n.left # NULL /\ n.right # NULL
        THEN LET s   == find_successor_and_delete(m1, node)
                 val == IF s.ref \in DOMAIN s.m.heap
                        THEN s.m.heap[s.ref].data
                        ELSE IF stale.kept THEN m.heap[s.ref].data
                        ELSE stale.data
             IN  Wr([Rd(s.m, s.ref) EXCEPT
                        !.heap[node].data = val,
                        !.ub = @ \/ (s.ref \notin DOMAIN s.m.heap /\ ~stale.kept)],
                    node)
        ELSE IF n.left = NULL /\ n.right = NULL
        THEN lib_delete_right(m1, parent, stale)
        ELSE IF n.left = NULL
             THEN delete_right(m1, node)
             ELSE delete_left(m1, node)

\* lib.rs BinarySearchTree::delete_node
RECURSIVE lib_delete_node(_, _, _, _)
lib_delete_node(m, data, node, stale) ==
    IF node = NULL THEN m
    ELSE LET m1 == Rd(m, node)
         IN  IF data > m.heap[node].data
             THEN LET right == m.heap[node].right
                  IN  IF right = NULL THEN m1
                      ELSE IF data = m.heap[right].data
                      THEN lib_delete_node_helper(Rd(m1, right), node, right, stale)
                      ELSE lib_delete_node(Rd(m1, right), data, right, stale)
             ELSE IF data < m.heap[node].data
             THEN LET left == m.heap[node].left
                  IN  IF left = NULL THEN m1
                      ELSE IF data = m.heap[left].data
                      THEN lib_delete_node_helper(Rd(m1, left), node, left, stale)
                      ELSE lib_delete_node(Rd(m1, left), data, left, stale)
             ELSE m1

\* lib.rs BinarySearchTree::delete
lib_delete(m, data, stale) ==
    IF m.root = NULL
    THEN [m EXCEPT !.fault = "null_deref", !.log = Append(@, <<"read", NULL>>)]
    ELSE IF m.heap[m.root].data = data
    THEN [release(Rd(m, m.root), m.root) EXCEPT !.root = NULL]
    ELSE lib_delete_node(m, data, m.root, stale)

\* lib.rs get and in_order
lib_get(data) == get_in(lib.root, lib.heap, data)
lib_in_order == in_order_node(lib.heap, lib.root)

LibMachine == [lib EXCEPT !.log = <<>>]
LibReady == lib.fault = "none" /\ ~lib.ub

\* The same call on both trees.
AddBoth(v) ==
    /\ TreeReady /\ LibReady
    /\ nxt <= MaxAlloc
    /\ Install(add(Machine, v), "add", v)
    /\ tins' = tins \cup {v}
    /\ lib' = lib_add(LibMachine, v)
    /\ UNCHANGED <<dels, listVars>>

DeleteBoth(v) ==
    /\ TreeReady /\ LibReady
    /\ dels < MaxDeletes
    /\ \E stale \in Stale : Install(delete(Machine, v, stale), "delete", v)
    /\ \E stale \in Stale : lib' = lib_delete(LibMachine, v, stale)
    /\ dels' = dels + 1
    /\ UNCHANGED <<tins, listVars>>

TreePairNext ==
    \/ \E v \in Values : AddBoth(v)
    \/ \E v \in Values : DeleteBoth(v)

\* C25: from new(v), after every sequence of add and delete calls the tree of
\* lib.rs and the tree of binary_search_tree.rs give the same get results
\* and the same in_order sequence.
C25_LibEquivalent ==
    (fault = "none" /\ ~tub /\ ~lib.ub) =>
        /\ lib.fault = "none"
        /\ lib_in_order = in_order
        /\ \A x \in Values : lib_get(x) = get(x)

\* C22: after the teardown of a tree none of its nodes is allocated, and after
\* the teardown of a list none of its nodes is.
C22_TeardownReleasesAll ==
    /\ tlast.op = "drop" => DOMAIN heap = {}
    /\ llast.op = "drop" => lalloc = {}

\* ------------------------------------------------------ list: machine state
\* The list operations are functions of a machine state
\*   m = [root, leaf, size, heap, alloc, used, log, fault, ub, undef].
\* A fault ends the operation where it occurs.
ListMachine == [root |-> lroot, leaf |-> lleaf, size |-> size, heap |-> lheap,
                alloc |-> lalloc, used |-> lused, log |-> <<>>, fault |-> lfault,
                ub |-> FALSE, undef |-> FALSE]

\* What a read of a released node may find: the allocator may have left the
\* old contents (kept) or anything else.
Kept == [kept |-> TRUE, data |-> ValPool[1], next |-> NULL]
Garbage ==
    [kept : {TRUE}, data : {ValPool[1]}, next : {NULL}]
        \cup [kept : {FALSE}, data : ListValues, next : {NULL} \cup LAddr]
\* The outcomes to consider for an operation, given the machine state mk it
\* ends in when released memory keeps its contents: the operation runs the
\* same way whatever released memory holds until it first reads some.
Outcomes(mk) == IF mk.undef THEN Garbage ELSE {g \in Garbage : g.kept}

\* The fields read at address p.
Cell(m, p, g) ==
    IF p \in m.alloc \/ g.kept THEN m.heap[p]
    ELSE [data |-> g.data, next |-> g.next]

\* Dereferencing p: a null pointer and a pointer into memory that was never
\* allocated fault; a pointer to a released node reads what is found there.
Chk(m, p) ==
    IF p = NULL THEN "null_deref"
    ELSE IF p \notin m.used THEN "wild_access"
    ELSE "none"
Fail(m, f) == [m EXCEPT !.fault = f]
Ok(m) == m.fault = "none"

\* A read and a write of the node at p, recorded in the log; undef records
\* that the operation did something whose outcome is not defined, ub that
\* the outcome was not the harmless one.
LRd(m, p, g) ==
    [m EXCEPT !.log = Append(@, <<"read", p>>),
              !.undef = @ \/ p \notin m.alloc,
              !.ub = @ \/ (p \notin m.alloc /\ ~g.kept)]
LWr(m, p) == [m EXCEPT !.log = Append(@, <<"write", p>>)]

\* Node::new_mut_with_next (and Node::new_mut, with next null): the allocator
\* hands out the unallocated address a.
new_mut_with_next(m, data, next, a) ==
    [m EXCEPT !.heap[a] = [data |-> data, next |-> next],
              !.alloc = @ \cup {a},
              !.used = @ \cup {a},
              !.log = Append(@, <<"alloc", a>>)]

\* drop(Box::from_raw(p)) on a list node.  Releasing null is undefined: the
\* build either does nothing (free(NULL)) or faults.
list_release(m, p, g) ==
    IF p = NULL
    THEN IF g.kept THEN [m EXCEPT !.undef = TRUE]
                   ELSE Fail([m EXCEPT !.undef = TRUE], "free_null")
    ELSE IF p \notin m.alloc
    THEN Fail([m EXCEPT !.log = Append(@, <<"free", p>>)],
              IF p \in m.used THEN "double_free" ELSE "wild_access")
    ELSE [m EXCEPT !.alloc = @ \ {p},
                   !.log = Append(@, <<"free", p>>)]

\* self.size -= 1 on the u32 size: an underflow is a fault.
dec_size(m) ==
    IF m.size = 0 THEN Fail(m, "underflow")
    ELSE [m EXCEPT !.size = @ - 1]

\* SinglyLinkedList::push
push(m, data, a, g) ==
    IF m.leaf = NULL
    THEN LET m1 == new_mut_with_next(m, data, NULL, a)
         IN  [m1 EXCEPT !.root = a, !.leaf = a, !.size = @ + 1]
    ELSE IF Chk(m, m.leaf) # "none" THEN Fail(m, Chk(m, m.leaf))
    ELSE LET m0 == LRd(m, m.leaf, g)
         IN  IF Cell(m, m.leaf, g).next # NULL THEN m0
             ELSE LET m1 == new_mut_with_next(m0, data, NULL, a)
                      m2 == LWr([m1 EXCEPT !.heap[m.leaf].next = a], m.leaf)
                  IN  [LRd(m2, m.leaf, g) EXCEPT
                          !.leaf = Cell(m2, m.leaf, g).next,
                          !.size = @ + 1]

\* SinglyLinkedList::insert
insert(m, data, a) ==
    LET m1 == [new_mut_with_next(m, data, m.root, a) EXCEPT !.root = a]
        m2 == IF m1.leaf = NULL THEN [m1 EXCEPT !.leaf = m1.root] ELSE m1
    IN  [m2 EXCEPT !.size = @ + 1]

\* The loop of pop: while current.next.next is not null, step.  A walk longer
\* than the memory is a walk round a cycle: the loop never ends.
RECURSIVE pop_walk(_, _, _, _)
pop_walk(m, current, fuel, g) ==
    IF fuel = 0 THEN [m |-> Fail(m, "hang"), current |-> current]
    ELSE IF Chk(m, current) # "none"
    THEN [m |-> Fail(m, Chk(m, current)), current |-> current]
    ELSE LET nx == Cell(m, current, g).next
             m1 == LRd(m, current, g)
         IN  IF Chk(m, nx) # "none"
             THEN [m |-> Fail(m1, Chk(m, nx)), current |-> current]
             ELSE IF Cell(m, nx, g).next # NULL
             THEN pop_walk(LRd(m1, nx, g), nx, fuel - 1, g)
             ELSE [m |-> LRd(m1, nx, g), current |-> current]

\* pop that lowers size by one in its first branch instead of setting it to 0.
pop_dec(m, g) ==
    IF m.leaf = m.root
    THEN LET m1 == list_release(m, m.root, g)
         IN  IF ~Ok(m1) THEN m1
             ELSE dec_size([m1 EXCEPT !.root = NULL, !.leaf = NULL])
    ELSE LET w == pop_walk(m, m.root, MaxAddr + 1, g)
         IN  IF ~Ok(w.m) THEN w.m
             ELSE LET c  == w.current
                      m1 == list_release(LRd(w.m, c, g), Cell(w.m, c, g).next, g)
                  IN  IF ~Ok(m1) THEN m1
                      ELSE dec_size([LWr([m1 EXCEPT !.heap[c].next = NULL], c)
                                       EXCEPT !.leaf = c])

\* SinglyLinkedList::pop
pop(m, g) ==
    IF m.leaf = m.root
    THEN LET m1 == list_release(m, m.root, g)
         IN  IF ~Ok(m1) THEN m1
             ELSE [m1 EXCEPT !.root = NULL, !.leaf = NULL, !.size = 0]
    ELSE LET w == pop_walk(m, m.root, MaxAddr + 1, g)
         IN  IF ~Ok(w.m) THEN w.m
             ELSE LET c  == w.current
                      m1 == list_release(LRd(w.m, c, g), Cell(w.m, c, g).next, g)
                  IN  IF ~Ok(m1) THEN m1
                      ELSE dec_size([LWr([m1 EXCEPT !.heap[c].next = NULL], c)
                                       EXCEPT !.leaf = c])

\* SinglyLinkedList::remove_first
remove_first(m, g) ==
    IF m.size = 0 THEN m
    ELSE IF m.leaf = m.root
    THEN LET m1 == list_release(m, m.root, g)
         IN  IF ~Ok(m1) THEN m1
             ELSE [m1 EXCEPT !.root = NULL, !.leaf = NULL, !.size = 0]
    ELSE IF Chk(m, m.root) # "none" THEN Fail(m, Chk(m, m.root))
    ELSE LET new_root == Cell(m, m.root, g).next
             m1 == list_release(LRd(m, m.root, g), m.root, g)
         IN  IF ~Ok(m1) THEN m1
             ELSE dec_size([m1 EXCEPT !.root = new_root])

\* The loop of remove_data: while current.data differs from data, step; the
\* loop returns from remove_data (found = FALSE) at the last node.
RECURSIVE remove_data_walk(_, _, _, _, _, _)
remove_data_walk(m, data, past, current, fuel, g) ==
    IF fuel = 0
    THEN [m |-> Fail(m, "hang"), found |-> FALSE, past |-> past, current |-> current]
    ELSE IF Chk(m, current) # "none"
    THEN [m |-> Fail(m, Chk(m, current)), found |-> FALSE,
          past |-> past, current |-> current]
    ELSE LET m1 == LRd(m, current, g)
         IN  IF Cell(m, current, g).data # data
             THEN IF Cell(m, current, g).next = NULL
                  THEN [m |-> m1, found |-> FALSE, past |-> past, current |-> current]
                  ELSE remove_data_walk(m1, data, current,
                                        Cell(m, current, g).next, fuel - 1, g)
             ELSE [m |-> m1, found |-> TRUE, past |-> past, current |-> current]

\* SinglyLinkedList::remove_data
remove_data(m, data, g) ==
    IF Chk(m, m.root) # "none" THEN Fail(m, Chk(m, m.root))
    ELSE IF Cell(m, m.root, g).data = data THEN remove_first(LRd(m, m.root, g), g)
    ELSE IF Chk(m, m.leaf) # "none" THEN Fail(LRd(m, m.root, g), Chk(m, m.leaf))
    ELSE IF Cell(m, m.leaf, g).data = data
    THEN pop(LRd(LRd(m, m.root, g), m.leaf, g), g)
    ELSE LET m0 == LRd(LRd(LRd(m, m.root, g), m.leaf, g), m.root, g)
             w  == remove_data_walk(m0, data, m.root, Cell(m, m.root, g).next,
                                    MaxAddr + 1, g)
         IN  IF ~Ok(w.m) \/ ~w.found THEN w.m
             ELSE LET m1 == list_release(LRd(w.m, w.past, g),
                                         Cell(w.m, w.past, g).next, g)
                  IN  IF ~Ok(m1) THEN m1
                      ELSE LET m2 == LRd(m1, w.current, g)
                           IN  LWr([m2 EXCEPT !.heap[w.past].next =
                                                  Cell(m1, w.current, g).next],
                                   w.past)

\* The loop of remove_at.
RECURSIVE remove_at_walk(_, _, _, _, _)
remove_at_walk(m, index, current, pos, g) ==
    IF Chk(m, current) # "none" THEN Fail(m, Chk(m, current))
    ELSE LET m0 == LRd(m, current, g)
         IN  IF Cell(m, current, g).next # NULL /\ pos < index
             THEN IF pos = index - 1
                  THEN LET victim == Cell(m, current, g).next
                           m1 == list_release(m0, victim, g)
                       IN  IF ~Ok(m1) THEN m1
                           ELSE LET m2 == LRd(LRd(m1, current, g), victim, g)
                                IN  dec_size(LWr([m2 EXCEPT !.heap[current].next =
                                                         Cell(m1, victim, g).next],
                                                 current))
                  ELSE remove_at_walk(m0, index, Cell(m, current, g).next,
                                      pos + 1, g)
             ELSE m0

\* SinglyLinkedList::remove_at
remove_at(m, index, g) ==
    IF m.size = 0 THEN m
    ELSE IF index = 0 THEN remove_first(m, g)
    ELSE IF index = m.size - 1 THEN pop(m, g)
    ELSE remove_at_walk(m, index, m.root, 0, g)

\* The list goes out of scope.  SinglyLinkedList has no Drop impl and its
\* fields are raw pointers and an integer: nothing is released.
list_teardown(m) == m

\* SinglyLinkedList::get: what is returned (val), or the fault the call ends
\* in; ub records a read of released memory that did not find the old
\* contents.
Got(val) == [val |-> val, fault |-> "none", ub |-> FALSE]
GotAt(m, p, g) ==
    IF Chk(m, p) # "none" THEN [val |-> None, fault |-> Chk(m, p), ub |-> FALSE]
    ELSE [val |-> Some(Cell(m, p, g).data), fault |-> "none",
          ub |-> p \notin m.alloc /\ ~g.kept]

\* The loop of get and the test that follows it.
RECURSIVE get_walk(_, _, _, _, _, _)
get_walk(m, index, current, pos, fuel, g) ==
    IF Chk(m, current) # "none"
    THEN [val |-> None, fault |-> Chk(m, current), ub |-> FALSE]
    ELSE IF fuel = 0 THEN [val |-> None, fault |-> "hang", ub |-> FALSE]
    ELSE LET stale == current \notin m.alloc /\ ~g.kept
             r == IF Cell(m, current, g).next # NULL /\ pos < index
                  THEN get_walk(m, index, Cell(m, current, g).next, pos + 1,
                                fuel - 1, g)
                  ELSE IF pos # index THEN Got(None)
                  ELSE Got(Some(Cell(m, current, g).data))
         IN  [r EXCEPT !.ub = @ \/ stale]

list_get(m, index, g) ==
    IF m.size = 0 THEN Got(None)
    ELSE IF index = m.size - 1
    THEN IF m.leaf = NULL THEN Got(None) ELSE GotAt(m, m.leaf, g)
    ELSE IF index = 0
    THEN IF m.root = NULL THEN Got(None) ELSE GotAt(m, m.root, g)
    ELSE get_walk(m, index, m.root, 0, MaxAddr + 1, g)

\* SinglyLinkedList::get_first / get_last
get_first == IF lroot = NULL THEN None ELSE Some(lheap[lroot].data)
get_last == IF lleaf = NULL THEN None ELSE Some(lheap[lleaf].data)

\* The nodes met by following next from p until null, for at most fuel nodes
\* (a chain through a cycle is cut there).
RECURSIVE chain(_, _, _)
chain(h, p, fuel) ==
    IF p = NULL \/ fuel = 0 THEN <<>>
    ELSE <<p>> \o chain(h, h[p].next, fuel - 1)

\* The nodes reachable from the head, in order, and their values.
Nodes == chain(lheap, lroot, MaxAddr + 1)
Contents == [i \in DOMAIN Nodes |-> lheap[Nodes[i]].data]

\* ------------------------------------------------------------ list: actions
\* The abstract sequence operations.
DropAt(s, i) == [k \in 1..(Len(s) - 1) |-> IF k < i THEN s[k] ELSE s[k + 1]]
FirstEq(s, v) == CHOOSE i \in DOMAIN s : s[i] = v /\ \A k \in 1..(i - 1) : s[k] # v
DropFirstEq(s, v) == IF \E i \in DOMAIN s : s[i] = v THEN DropAt(s, FirstEq(s, v)) ELSE s

ListInstall(m, op, arg, abs, removing) ==
    /\ lroot' = m.root
    /\ lleaf' = m.leaf
    /\ size' = m.size
    /\ lheap' = m.heap
    /\ lalloc' = m.alloc
    /\ lused' = m.used
    /\ llog' = m.log
    /\ lfault' = m.fault
    /\ lub' = m.ub
    /\ lpre' = [nodes |-> Nodes, contents |-> Contents, alloc |-> lalloc,
                size |-> size, root |-> lroot, leaf |-> lleaf]
    /\ llast' = [op |-> op, arg |-> arg]
    /\ aseq' = abs
    /\ rems' = rems + (IF removing THEN 1 ELSE 0)
    /\ lops' = lops + 1
    /\ UNCHANGED <<treeVars, lib>>

BlankHeap == [a \in LAddr |-> [data |-> ValPool[1], next |-> NULL]]
NoPre == [nodes |-> <<>>, contents |-> <<>>, alloc |-> {}, size |-> 0,
          root |-> NULL, leaf |-> NULL]

\* SinglyLinkedList::new_empty()
ListInitEmpty ==
    /\ lroot = NULL /\ lleaf = NULL /\ size = 0
    /\ lheap = BlankHeap
    /\ lalloc = {} /\ lused = {}
    /\ llast = [op |-> "new_empty", arg |-> NULL]
    /\ aseq = <<>>

\* SinglyLinkedList::new(data)
ListInitOne ==
    \E v \in ListValues :
        /\ lroot = 1 /\ lleaf = 1 /\ size = 1
        /\ lheap = [BlankHeap EXCEPT ![1] = [data |-> v, next |-> NULL]]
        /\ lalloc = {1} /\ lused = {1}
        /\ llast = [op |-> "new", arg |-> v]
        /\ aseq = <<v>>

ListRest ==
    /\ llog = <<>> /\ lfault = "none" /\ lub = FALSE /\ lpre = NoPre
    /\ rems = 0 /\ lops = 0

ListInit == (ListInitEmpty \/ ListInitOne) /\ ListRest

\* An execution is followed until it faults or reads released memory that
\* the allocator has overwritten: from there on nothing is defined.
ListLive == lfault = "none" /\ ~lub /\ llast.op # "drop"
ListReady == ListLive /\ lops < MaxListOps

\* The addresses the allocator may hand out: a released one, or the lowest
\* that was never used (the unused ones are interchangeable).
Unused == LAddr \ lused
AllocChoices ==
    (lused \ lalloc) \cup {a \in Unused : \A b \in Unused : a <= b}

Push(v) ==
    /\ ListReady
    /\ \E a \in AllocChoices :
       \E g \in Outcomes(push(ListMachine, v, a, Kept)) :
          ListInstall(push(ListMachine, v, a, g), "push", v, Append(aseq, v), FALSE)

Insert(v) ==
    /\ ListReady
    /\ \E a \in AllocChoices :
          ListInstall(insert(ListMachine, v, a), "insert", v, <<v>> \o aseq, FALSE)

Pop ==
    /\ ListReady
    /\ \E g \in Outcomes(pop(ListMachine, Kept)) :
          ListInstall(pop(ListMachine, g), "pop", NULL,
                      IF aseq = <<>> THEN aseq ELSE DropAt(aseq, Len(aseq)), TRUE)

RemoveFirst ==
    /\ ListReady
    /\ \E g \in Outcomes(remove_first(ListMachine, Kept)) :
          ListInstall(remove_first(ListMachine, g), "remove_first", NULL,
                      IF aseq = <<>> THEN aseq ELSE DropAt(aseq, 1), TRUE)

RemoveData(v) ==
    /\ ListReady
    /\ \E g \in Outcomes(remove_data(ListMachine, v, Kept)) :
          ListInstall(remove_data(ListMachine, v, g), "remove_data", v,
                      DropFirstEq(aseq, v), TRUE)

RemoveAt(i) ==
    /\ ListReady
    /\ \E g \in Outcomes(remove_at(ListMachine, i, Kept)) :
          ListInstall(remove_at(ListMachine, i, g), "remove_at", i,
                      IF i < Len(aseq) THEN DropAt(aseq, i + 1) ELSE aseq, TRUE)

ListDrop ==
    /\ ListLive
    /\ ListInstall(list_teardown(ListMachine), "drop", NULL, aseq, FALSE)

\* remove_at with an index in range
RemoveAtInRange(i) == i < size /\ RemoveAt(i)

\* The operations of the abstract sequence: push, insert, pop, remove_first
\* and remove_at(i) with i < size.
ListSeqNext ==
    \/ \E v \in ListValues : Push(v)
    \/ \E v \in ListValues : Insert(v)
    \/ Pop
    \/ RemoveFirst
    \/ \E i \in 0..MaxAddr : RemoveAtInRange(i)

ListNext ==
    \/ \E v \in ListValues : Push(v)
    \/ \E v \in ListValues : Insert(v)
    \/ Pop
    \/ RemoveFirst
    \/ \E i \in 0..MaxAddr : RemoveAt(i)
    \/ \E v \in ListValues : RemoveData(v)
    \/ ListDrop

\* ------------------------------------------------------------- list: claims
\* The last operation ran to its end and every read of released memory, if
\* any, found the old contents.
Defined == lfault = "none" /\ ~lub
Removing == llast.op \in {"pop", "remove_first", "remove_data", "remove_at"}

\* C2: after any sequence of list operations size equals the number of nodes
\* reachable from the head by following next; a remove_data that removes an
\* element lowers size by one.
C2_SizeIsCount ==
    Defined => size = Len(Nodes)

\* C4: during a pop, remove_first, remove_data or remove_at no node is read
\* or written after it has been released: every read and write of the
\* operation is of a node that is allocated at that point.
C4_ListNoUseAfterRelease ==
    Removing =>
        \A j \in DOMAIN llog :
            llog[j][1] \in {"read", "write"} =>
                /\ llog[j][2] \in lpre.alloc
                /\ \A i \in 1..(j - 1) : llog[i] # <<"free", llog[j][2]>>

\* C8: remove_data(v) removes the first element equal to v and no other, also
\* when a later element (the tail included) equals v; the others keep their
\* order.
C8_RemoveDataFirstMatch ==
    (Defined /\ llast.op = "remove_data" /\ rems = 1
             /\ llast.arg \in Range(lpre.contents)) =>
        Contents = DropFirstEq(lpre.contents, llast.arg)

\* C9: in every reachable state the tail reference designates the last node
\* reachable from the head, that node is allocated and its next is null, and
\* head and tail are both null exactly when size is 0.
C9_TailIsLast ==
    Defined =>
        /\ (lroot = NULL /\ lleaf = NULL) <=> (size = 0)
        /\ (lroot = NULL) <=> (lleaf = NULL)
        /\ lroot # NULL =>
              /\ lleaf = Nodes[Len(Nodes)]
              /\ lleaf \in lalloc
              /\ lheap[lleaf].next = NULL

\* C10: under push, insert, pop, remove_first and remove_at(i) with i < size
\* the list refines the abstract sequence: the values from head to tail are
\* the sequence, get_first and get_last its first and last element, size its
\* length.
C10_RefinesSequence ==
    lfault = "none" =>
        /\ Contents = aseq
        /\ size = Len(aseq)
        /\ get_first = (IF aseq = <<>> THEN None ELSE Some(aseq[1]))
        /\ get_last = (IF aseq = <<>> THEN None ELSE Some(aseq[Len(aseq)]))

\* C16: pop on an empty list ends without a fault and releases nothing: head
\* and tail stay null and size stays 0.
C16_PopEmpty ==
    (llast.op = "pop" /\ lpre.root = NULL /\ lpre.leaf = NULL /\ lpre.size = 0) =>
        /\ lfault = "none"
        /\ \A j \in DOMAIN llog : llog[j][1] # "free"
        /\ lroot = NULL /\ lleaf = NULL /\ size = 0

\* C17: remove_data(v) on a list none of whose elements equals v, the empty
\* and the one-element list included, ends without a fault and leaves the
\* contents, head, tail and size as they were.
C17_RemoveDataAbsent ==
    (llast.op = "remove_data" /\ llast.arg \notin Range(lpre.contents)) =>
        /\ lfault = "none"
        /\ Contents = lpre.contents
        /\ lroot = lpre.root /\ lleaf = lpre.leaf /\ size = lpre.size

\* C18: remove_at(index) with index >= size, the empty list included, ends
\* without a fault and leaves the contents, head, tail and size as they were.
C18_RemoveAtOutOfRange ==
    (llast.op = "remove_at" /\ llast.arg >= lpre.size) =>
        /\ lfault = "none" /\ ~lub
        /\ \A j \in DOMAIN llog : llog[j][1] \notin {"free", "write"}
        /\ Nodes = lpre.nodes /\ Contents = lpre.contents
        /\ lroot = lpre.root /\ lleaf = lpre.leaf /\ size = lpre.size

\* C19: after any sequence of list operations get(index) returns the element
\* at position index from the head when index is below the number of
\* elements, and nothing when index >= size.
C19_GetByIndex ==
    Defined =>
        \A i \in 0..(MaxAddr + 1), g \in Garbage :
            LET r == list_get(ListMachine, i, g)
            IN  /\ i < Len(Nodes) => r = Got(Some(Contents[i + 1]))
                /\ i >= size => r = Got(None)

\* The last operation removed the only element of the list.
RemovedTheOnly ==
    /\ Defined
    /\ Len(lpre.nodes) = 1
    /\ \/ llast.op \in {"pop", "remove_first"}
       \/ llast.op = "remove_at" /\ llast.arg = 0
       \/ llast.op = "remove_data" /\ llast.arg = lpre.contents[1]

\* C20: when pop, remove_first, remove_at or remove_data removes the only
\* element, head and tail become null and size 0; a push or insert on the
\* list so emptied yields a list of one element, the new value, which is its
\* first and its last, with size 1.
C20_LastElement ==
    /\ RemovedTheOnly => (lroot = NULL /\ lleaf = NULL /\ size = 0)
    /\ (Defined /\ llast.op \in {"push", "insert"} /\ rems > 0
                /\ lpre.nodes = <<>>) =>
          /\ Contents = <<llast.arg>>
          /\ get_first = Some(llast.arg) /\ get_last = Some(llast.arg)
          /\ size = 1

\* C26: no list operation underflows its unsigned arithmetic: size -= 1 in
\* pop, remove_first and remove_at is only evaluated with size at least 1
\* (size - 1 and index - 1 in get and remove_at are evaluated behind the
\* tests size == 0 and index == 0).
C26_NoUnderflow ==
    /\ lfault # "underflow"
    /\ \A i \in 0..(MaxAddr + 1), g \in Garbage :
          list_get(ListMachine, i, g).fault # "underflow"

\* size -= 1 was evaluated (the list had head # tail) and left size 1.
C26_Witness ==
    /\ lfault = "none"
    /\ llast.op \in {"pop", "remove_first", "remove_at"}
    /\ lpre.root # lpre.leaf
    /\ size = lpre.size - 1
    /\ size = 1

\* ----------------------------------------------------------- specifications
\* The two structures share no state: each is checked on its own, the other
\* left as constructed.
TreeIdle == TreeNew(ValPool[1])
ListIdle == ListInitEmpty /\ ListRest

LibIdle == lib = NewTree(ValPool[1])
InitTree == TreeInit /\ ListIdle /\ LibIdle
InitList == TreeIdle /\ ListInit /\ LibIdle
InitTreeAdd == (\E v \in AllValues : TreeNew(v)) /\ ListIdle /\ LibIdle
InitTreePair == (\E v \in Values : TreeNew(v) /\ lib = NewTree(v)) /\ ListIdle

\* The tree under new, add and delete.
SpecTree == InitTree /\ [][TreeNext]_vars
\* The tree under new and add alone, with all the values of the tests.
SpecTreeAdd == InitTreeAdd /\ [][TreeAddNext]_vars
\* The tree of binary_search_tree.rs and the tree of lib.rs under the same
\* calls of new, add and delete.
SpecTreePair == InitTreePair /\ [][TreePairNext]_vars
\* The list under all its operations.
SpecList == InitList /\ [][ListNext]_vars
\* The list under the operations of the abstract sequence.
SpecListSeq == InitList /\ [][ListSeqNext]_vars

====
